---- MODULE Spec2Model ----
(***************************************************************************)
(* Orders of the serverfc store backend: checkout, payment reconciliation, *)
(* the admin's order routes and the public tracking lookup.                *)
(* src/server.js and src/backend/server.js carry the same checkout,        *)
(* webhook and admin handlers; the model follows src/server.js statement   *)
(* by statement.  Every `await` of a handler is a point                    *)
(* where other requests may run, so each handler is split into one action  *)
(* per stretch of code between two awaits.                                 *)
(*                                                                         *)
(* Money is counted in centavos (1/100 BRL), so that toFixed(2) is a       *)
(* rounding to an integer.  Arithmetic is exact; the binary floating point *)
(* of the source differs from it only at exact half-centavo ties.          *)
(***************************************************************************)
EXTENDS Integers, Sequences, FiniteSets, TLC

\* ------------------------------------------------------------------ bounds
MaxCheckouts == 2
MaxWebhooks == 2
MaxPayments == 1
MaxItems == 2
MaxQty == 2
MaxAdmins == 1
MaxLookups == 1

Checkouts == 1..MaxCheckouts
Webhooks == 1..MaxWebhooks
Payments == 1..MaxPayments
Admins == 1..MaxAdmins
Lookups == 1..MaxLookups

\* A field that the request body does not carry (undefined in the source).
Missing == "undefined"

\* external_reference of a payment that belongs to no checkout of this server
\* (an id that externalReference never takes).
GhostRef == MaxCheckouts + 1

\* ------------------------------------------------- pricing (pure functions)

RECURSIVE SumLines(_)
\* itens.reduce((acc, item) => acc + Number(item.preco) * Number(item.qty), 0)
SumLines(itens) ==
    IF itens = << >> THEN 0
    ELSE Head(itens).preco * Head(itens).qty + SumLines(Tail(itens))

totalProdutos(itens) == SumLines(itens)

Abs(n) == IF n < 0 THEN 0 - n ELSE n

\* Number((num/den).toFixed(2)) for a quotient of centavos, den > 0:
\* the nearest integer, halves away from zero.
toFixed2(num, den) ==
    IF num >= 0 THEN (2 * num + den) \div (2 * den)
    ELSE 0 - ((2 * Abs(num) + den) \div (2 * den))

\* Variant: the item's share of the discount is not divided by item.qty.
unit_priceWholeShare(item, desconto, tp) ==
    IF desconto > 0 /\ tp > 0
    THEN toFixed2(item.preco * tp - desconto * item.preco, tp)
    ELSE item.preco

\* precoFinal of one item, rounded: the body of itens.map(...).
\* A division by item.qty = 0 yields -Infinity (or NaN for 0/0), which
\* toFixed and Number carry through unchanged.
unit_price(item, desconto, tp) ==
    IF desconto > 0 /\ tp > 0
    THEN IF item.qty = 0
         THEN (IF item.preco = 0 THEN "NaN" ELSE "-Infinity")
         ELSE toFixed2(item.preco * tp * item.qty - desconto * item.preco,
                       tp * item.qty)
    ELSE item.preco

itemsParaMP(itens, desconto) ==
    [i \in DOMAIN itens |->
        [quantity |-> itens[i].qty,
         unit_price |-> unit_price(itens[i], desconto, totalProdutos(itens))]]

\* --------------------------------------------------------- request bodies

\* A cart line as the shop front sends it; the model varies price and
\* quantity.
Item(p, q) ==
    [nome |-> "camiseta", preco |-> p, qty |-> q, size |-> "M",
     color |-> "preto", imagem |-> "camiseta.png"]

\* The kinds of `total` a checkout body may carry: a number; nothing (or a
\* numeric string such as "12.50", which the schema casts and which has no
\* toFixed either); a string that is no number ("abc").
TotalKinds == {"number", Missing, "badstring"}

\* hasItens = FALSE stands for a body without an `itens` array.
CheckoutBody(itens, desconto, total) ==
    [hasItens |-> TRUE, itens |-> itens, desconto |-> desconto, total |-> total]

NoItensBody ==
    [hasItens |-> FALSE, itens |-> << >>, desconto |-> 0, total |-> "number"]

\* The cart of the specification's example: 2 x 100.00 and 1 x 50.00.
ExampleCart == <<Item(10000, 2), Item(5000, 1)>>

\* The checkout bodies the model submits.
Bodies ==
    { CheckoutBody(ExampleCart, 2500, "number"),
      CheckoutBody(<< >>, 0, "number"),
      CheckoutBody(<<Item(5000, 0), Item(5000, 1)>>, 2500, "number"),
      CheckoutBody(<<Item(5000, 1)>>, 0, Missing),
      CheckoutBody(<<Item(5000, 1)>>, 0, "badstring"),
      NoItensBody }

WebhookActions == {"payment.created", "payment.updated", "merchant_order"}

\* data is <<id>> for {id: id} and << >> when the body carries no data.
WebhookBodies ==
    [action : WebhookActions, data : {<<p>> : p \in Payments} \cup {<< >>}]

\* Payment statuses of the gateway; "refunded" stands for every status that
\* is neither approved nor rejected nor pending.
PaymentStatuses == {"pending", "approved", "rejected", "refunded"}

\* The authorization header of a request to an admin route: absent, a string
\* jwt.verify rejects (malformed, forged or expired), a valid token without
\* isAdmin, a valid token with isAdmin.
Tokens == {Missing, "invalid", "user", "admin"}

ListOrders == "GET /api/orders"
PutStatus == "PUT /api/orders/:id/status"

Enviado == "Enviado"
AdminStatuses == {Enviado, "Entregue"}
TrackingCodes == {Missing, "BR123456789BR"}

\* Requests to the admin routes; only the PUT has :id and a body.
AdminRequests ==
    {[route |-> ListOrders, token |-> t, id |-> 0, status |-> "none",
      trackingCode |-> Missing] : t \in Tokens}
    \cup [route : {PutStatus}, token : Tokens, id : 1..(MaxCheckouts + 1),
          status : AdminStatuses, trackingCode : TrackingCodes]

\* The _id of the n-th order as the string it is (an ObjectId in lower-case
\* hexadecimal, shortened to three characters, the counter last).
HexDigits == <<"1", "2", "3", "4", "5", "6", "7", "8", "9">>
ObjectIdString(n) == <<"a", "f", HexDigits[n]>>

toUpperCase(ch) ==
    CASE ch = "a" -> "A" [] ch = "f" -> "F" [] OTHER -> ch

toLowerCase(ch) ==
    CASE ch = "A" -> "a" [] ch = "F" -> "f" [] OTHER -> ch

\* _id.toString().slice(-6).toUpperCase() of the confirmation mail: the
\* order number the customer is told, here the last two characters.
ShortCode(n) ==
    [i \in 1..2 |-> toUpperCase(ObjectIdString(n)[i + 1])]

\* What a customer may type into the tracking page: a whole _id or the order
\* number of the mail, of an order or of none.
Queries ==
    {ObjectIdString(n) : n \in 1..(MaxCheckouts + 1)}
    \cup {ShortCode(n) : n \in 1..(MaxCheckouts + 1)}

\* ------------------------------------------------------------------ state

VARIABLES
    orders,     \* the Order collection: _id -> document
    nextId,     \* number of ObjectIds minted so far
    checkout,   \* one record per POST /api/checkout request
    webhook,    \* one record per POST /api/webhook delivery
    adminReq,   \* one record per request to the admin order routes
    publicReq,  \* one record per GET /api/public/orders/:id request
    payments,   \* the gateway's payments: id -> status and external_reference
    aItens,     \* pricing check: the cart handed to the allocator
    aDesconto,  \* pricing check: the discount handed to the allocator
    aOut        \* pricing check: the gateway items computed, once done

vars == <<orders, nextId, checkout, webhook, adminReq, publicReq, payments,
          aItens, aDesconto, aOut>>

routeVars == <<adminReq, publicReq>>

allocVars == <<aItens, aDesconto, aOut>>

\* Order statuses written by the two handlers.
Aguardando == "Aguardando Pagamento (MP)"
Aprovado == "Aprovado"
Recusado == "Recusado"

\* The body of preference.create(...), as far as the model follows it.
NoPreference == [items |-> << >>, external_reference |-> 0]

IdleCheckout ==
    [pc |-> "idle", body |-> NoItensBody, externalReference |-> 0,
     gwCalls |-> 0, preference |-> NoPreference, mpResponse |-> FALSE,
     mail |-> "none", res |-> "none"]

IdleWebhook ==
    [pc |-> "idle", id |-> 0, status |-> "none", externalRef |-> 0,
     pedidoAtualizado |-> FALSE, mail |-> "none", res |-> "none",
     threw |-> "none", settled |-> {}]

IdleAdmin ==
    [pc |-> "idle", route |-> "none", token |-> Missing, id |-> 0,
     status |-> "none", trackingCode |-> Missing, storeCalls |-> 0,
     pedido |-> FALSE, mail |-> "none", res |-> "none"]

IdlePublic ==
    [pc |-> "idle", id |-> << >>, threw |-> FALSE, res |-> "none",
     json |-> << >>]

AbsentPayment == [status |-> "absent", external_reference |-> 0]

NoOut == [done |-> FALSE, items |-> << >>]

\* The server after start-up: an empty store, no request in flight.
InitServer ==
    /\ orders = << >>
    /\ nextId = 0
    /\ checkout = [c \in Checkouts |-> IdleCheckout]
    /\ webhook = [h \in Webhooks |-> IdleWebhook]
    /\ adminReq = [a \in Admins |-> IdleAdmin]
    /\ publicReq = [g \in Lookups |-> IdlePublic]
    /\ payments = [p \in Payments |-> AbsentPayment]

Init ==
    /\ InitServer
    /\ aItens = << >>
    /\ aDesconto = 0
    /\ aOut = NoOut

\* Requests are numbered in the order in which they arrive.
Arrived(reqs, n) == \A m \in 1..(n - 1) : reqs[m].pc # "idle"

\* ------------------------------------------------------ POST /api/checkout

\* The `cliente` of request c's body: each request comes from a customer of
\* its own, with a name, a mailbox and an address.
Cliente(c) == [nome |-> c, email |-> c, endereco |-> c]

\* The `frete` every body of the model carries, and the reading of the clock
\* that new Date() returns.
Frete == "frete"
Agora == "new Date()"

\* Variant: the document gets an ObjectId of its own instead of the
\* externalReference sent to the gateway.
novoPedidoOwnId(c) ==
    [_id |-> checkout[c].externalReference + MaxCheckouts,
     cliente |-> Cliente(c),
     itens |-> checkout[c].body.itens,
     subtotal |-> totalProdutos(checkout[c].body.itens),
     frete |-> Frete,
     desconto |-> checkout[c].body.desconto,
     total |-> checkout[c].body.total,
     status |-> Aguardando,
     data |-> Agora]

\* new Order({_id: externalReference, cliente, itens, subtotal, ..., status})
novoPedido(c) ==
    [_id |-> checkout[c].externalReference,
     cliente |-> Cliente(c),
     itens |-> checkout[c].body.itens,
     subtotal |-> totalProdutos(checkout[c].body.itens),
     frete |-> Frete,
     desconto |-> checkout[c].body.desconto,
     total |-> checkout[c].body.total,
     status |-> Aguardando,
     data |-> Agora]

\* The handler up to `await preference.create(...)`: the pricing, the fresh
\* ObjectId and the request to the gateway.  A body without `itens` throws
\* in itens.reduce and is answered by the catch block.
CheckoutStart(c, b) ==
    /\ checkout[c].pc = "idle"
    /\ Arrived(checkout, c)
    /\ IF b.hasItens
       THEN /\ nextId' = nextId + 1
            /\ checkout' = [checkout EXCEPT ![c] =
                   [@ EXCEPT !.pc = "gateway", !.body = b,
                             !.externalReference = nextId + 1,
                             !.gwCalls = @ + 1,
                             !.preference =
                                 [items |-> itemsParaMP(b.itens, b.desconto),
                                  external_reference |-> nextId + 1]]]
       ELSE /\ nextId' = nextId
            /\ checkout' = [checkout EXCEPT ![c] =
                   [@ EXCEPT !.pc = "done", !.body = b, !.res = "500"]]
    /\ UNCHANGED <<orders, webhook, payments, routeVars, allocVars>>

\* Variant: save() is called without `await`, so the mail and the success
\* response go out while the write is still on its way.
CheckoutGatewayOkNoAwait(c) ==
    /\ checkout[c].pc = "gateway"
    /\ checkout' = [checkout EXCEPT ![c].pc = "save", ![c].mpResponse = TRUE,
                        ![c].mail = "pending", ![c].res = "success"]
    /\ UNCHANGED <<orders, nextId, webhook, payments, routeVars, allocVars>>

\* preference.create resolves: the document is built and save() is called.
CheckoutGatewayOk(c) ==
    /\ checkout[c].pc = "gateway"
    /\ checkout' = [checkout EXCEPT ![c].pc = "save", ![c].mpResponse = TRUE]
    /\ UNCHANGED <<orders, nextId, webhook, payments, routeVars, allocVars>>

\* Variant: the rejection of preference.create is swallowed and the handler
\* goes on to save the order.
CheckoutGatewayFailIgnored(c) ==
    /\ checkout[c].pc = "gateway"
    /\ checkout' = [checkout EXCEPT ![c].pc = "save"]
    /\ UNCHANGED <<orders, nextId, webhook, payments, routeVars, allocVars>>

\* preference.create rejects: the catch block answers 500.
CheckoutGatewayFail(c) ==
    /\ checkout[c].pc = "gateway"
    /\ checkout' = [checkout EXCEPT ![c].pc = "done", ![c].res = "500"]
    /\ UNCHANGED <<orders, nextId, webhook, payments, routeVars, allocVars>>

\* The store writes the document of novoPedido.save().  A `total` that is
\* no number fails the schema's cast, so the document is never written.
StoreSave(c) ==
    /\ checkout[c].pc = "save"
    /\ checkout[c].body.total # "badstring"
    /\ novoPedido(c)._id \notin DOMAIN orders
    /\ orders' = orders @@ (novoPedido(c)._id :> novoPedido(c))
    /\ checkout' = [checkout EXCEPT ![c].pc = "saved"]
    /\ UNCHANGED <<nextId, webhook, payments, routeVars, allocVars>>

\* novoPedido.save() rejects (cast error or store failure): catch, 500.
StoreSaveFail(c) ==
    /\ checkout[c].pc = "save"
    /\ checkout' = [checkout EXCEPT ![c].pc = "done", ![c].res = "500"]
    /\ UNCHANGED <<orders, nextId, webhook, payments, routeVars, allocVars>>

\* The handler after `await novoPedido.save()`: the mail is handed to the
\* transporter and the response is sent.  total.toFixed(2) throws for a
\* `total` that is not a number, before sendMail is called; the catch block
\* then answers 500.
CheckoutRespond(c) ==
    /\ checkout[c].pc = "saved"
    /\ IF checkout[c].body.total = "number"
       THEN checkout' = [checkout EXCEPT ![c].pc = "done",
                             ![c].mail = "pending", ![c].res = "success"]
       ELSE checkout' = [checkout EXCEPT ![c].pc = "done", ![c].res = "500"]
    /\ UNCHANGED <<orders, nextId, webhook, payments, routeVars, allocVars>>

\* Variant: the mail is awaited inside the try block, so its rejection
\* reaches the catch block and the request is answered 500.
CheckoutMailDoneAwaited(c, ok) ==
    /\ checkout[c].mail = "pending"
    /\ checkout' = [checkout EXCEPT
           ![c].mail = IF ok THEN "sent" ELSE "failed",
           ![c].res = IF ok THEN @ ELSE "500"]
    /\ UNCHANGED <<orders, nextId, webhook, payments, routeVars, allocVars>>

\* transporter.sendMail(...) settles; a rejection is logged by .catch.
CheckoutMailDone(c, ok) ==
    /\ checkout[c].mail = "pending"
    /\ checkout' = [checkout EXCEPT ![c].mail = IF ok THEN "sent" ELSE "failed"]
    /\ UNCHANGED <<orders, nextId, webhook, payments, routeVars, allocVars>>

\* ------------------------------------------------------- POST /api/webhook

\* let novoStatus = 'Aguardando Pagamento (MP)'; if approved ...; if rejected ...
novoStatus(status) ==
    IF status = "rejected" THEN Recusado
    ELSE IF status = "approved" THEN Aprovado
    ELSE Aguardando

\* The orders whose status is Approved or Rejected.
Settled == {o \in DOMAIN orders : orders[o].status \in {Aprovado, Recusado}}

\* The handler up to `await payment.get(...)`.  Another action is answered
\* 200 at once; a payment action without `data` throws in data.id and is
\* answered by the catch block.  `threw` names the call whose exception the
\* catch block received.  `settled` is history: the orders that were Approved
\* or Rejected when the delivery arrived.
WebhookStart(h, b) ==
    /\ webhook[h].pc = "idle"
    /\ Arrived(webhook, h)
    /\ IF b.action \notin {"payment.created", "payment.updated"}
       THEN webhook' = [webhook EXCEPT ![h].pc = "done", ![h].res = "200"]
       ELSE IF b.data = << >>
       THEN webhook' = [webhook EXCEPT ![h].pc = "done", ![h].res = "500",
                                       ![h].threw = "data.id"]
       ELSE webhook' = [webhook EXCEPT ![h].pc = "fetch", ![h].id = b.data[1],
                                       ![h].settled = Settled]
    /\ UNCHANGED <<orders, nextId, checkout, payments, routeVars, allocVars>>

\* payment.get resolves with the gateway's current view of the payment;
\* findByIdAndUpdate is called with the status mapped by novoStatus.
WebhookFetchOk(h) ==
    /\ webhook[h].pc = "fetch"
    /\ payments[webhook[h].id].status # "absent"
    /\ webhook' = [webhook EXCEPT ![h] =
           [@ EXCEPT !.pc = "update",
                     !.status = payments[webhook[h].id].status,
                     !.externalRef = payments[webhook[h].id].external_reference]]
    /\ UNCHANGED <<orders, nextId, checkout, payments, routeVars, allocVars>>

\* payment.get rejects (unknown payment, network, gateway): catch, 500.
WebhookFetchFail(h) ==
    /\ webhook[h].pc = "fetch"
    /\ webhook' = [webhook EXCEPT ![h].pc = "done", ![h].res = "500",
                                   ![h].threw = "payment.get"]
    /\ UNCHANGED <<orders, nextId, checkout, payments, routeVars, allocVars>>

\* Variant: the update runs with {upsert: true} and inserts a document under
\* an _id the store does not have.
findByIdAndUpsert(ref, status) ==
    IF ref \in DOMAIN orders
    THEN [orders EXCEPT ![ref].status = status]
    ELSE orders @@ (ref :> [_id |-> ref, status |-> status])

\* Order.findByIdAndUpdate(externalRef, {status: novoStatus}, {new: true}):
\* one atomic write of the status, whatever the stored status is; null when
\* no document has that _id.
findByIdAndUpdate(ref, status) ==
    IF ref \in DOMAIN orders
    THEN [orders EXCEPT ![ref].status = status]
    ELSE orders

\* The store runs the update and the handler goes on: the confirmation mail
\* when the fetched status is approved and a document came back, then 200.
WebhookUpdate(h) ==
    /\ webhook[h].pc = "update"
    /\ orders' = findByIdAndUpdate(webhook[h].externalRef,
                                   novoStatus(webhook[h].status))
    /\ LET pedidoAtualizado == webhook[h].externalRef \in DOMAIN orders IN
       webhook' = [webhook EXCEPT ![h].pc = "done", ![h].res = "200",
           ![h].pedidoAtualizado = pedidoAtualizado,
           ![h].mail = IF webhook[h].status = "approved" /\ pedidoAtualizado
                       THEN "pending" ELSE "none"]
    /\ UNCHANGED <<nextId, checkout, payments, routeVars, allocVars>>

\* Variant: a failed update is logged and acknowledged with 200.
WebhookUpdateFailAcked(h) ==
    /\ webhook[h].pc = "update"
    /\ webhook' = [webhook EXCEPT ![h].pc = "done", ![h].res = "200",
                                   ![h].threw = "findByIdAndUpdate"]
    /\ UNCHANGED <<orders, nextId, checkout, payments, routeVars, allocVars>>

\* findByIdAndUpdate rejects (store failure): catch, 500.
WebhookUpdateFail(h) ==
    /\ webhook[h].pc = "update"
    /\ webhook' = [webhook EXCEPT ![h].pc = "done", ![h].res = "500",
                                   ![h].threw = "findByIdAndUpdate"]
    /\ UNCHANGED <<orders, nextId, checkout, payments, routeVars, allocVars>>

\* transporter.sendMail(...) settles; a rejection is logged by .catch.
WebhookMailDone(h, ok) ==
    /\ webhook[h].mail = "pending"
    /\ webhook' = [webhook EXCEPT ![h].mail = IF ok THEN "sent" ELSE "failed"]
    /\ UNCHANGED <<orders, nextId, checkout, payments, routeVars, allocVars>>

\* ------------------------------------------------------- the admin routes

\* verifyAdmin: no header, 401; jwt.verify throws, 400; a decoded token
\* without isAdmin, 403; otherwise next().
verifyAdmin(token) ==
    CASE token = Missing -> "401"
      [] token = "invalid" -> "400"
      [] token = "user" -> "403"
      [] OTHER -> "next"

\* A request reaches an admin route: verifyAdmin runs first and answers by
\* itself unless it calls next(); the handler then issues its one store
\* call, Order.find() or Order.findByIdAndUpdate(...), and awaits it.
AdminStart(a, r) ==
    /\ adminReq[a].pc = "idle"
    /\ Arrived(adminReq, a)
    /\ IF verifyAdmin(r.token) = "next"
       THEN adminReq' = [adminReq EXCEPT ![a] =
                [@ EXCEPT !.pc = "store", !.route = r.route,
                          !.token = r.token, !.id = r.id,
                          !.status = r.status,
                          !.trackingCode = r.trackingCode,
                          !.storeCalls = @ + 1]]
       ELSE adminReq' = [adminReq EXCEPT ![a] =
                [@ EXCEPT !.pc = "done", !.route = r.route,
                          !.token = r.token,
                          !.res = verifyAdmin(r.token)]]
    /\ UNCHANGED <<orders, nextId, checkout, webhook, payments, publicReq,
                   allocVars>>

\* GET /api/orders: the store answers Order.find().sort({data: -1}) and the
\* list is sent.
AdminFind(a) ==
    /\ adminReq[a].pc = "store"
    /\ adminReq[a].route = ListOrders
    /\ adminReq' = [adminReq EXCEPT ![a].pc = "done", ![a].res = "200"]
    /\ UNCHANGED <<orders, nextId, checkout, webhook, payments, publicReq,
                   allocVars>>

\* Variant: the shipped mail goes out for every status the admin sets.
AdminUpdateMailsAlways(a) ==
    /\ adminReq[a].pc = "store"
    /\ adminReq[a].route = PutStatus
    /\ orders' = findByIdAndUpdate(adminReq[a].id, adminReq[a].status)
    /\ LET pedido == adminReq[a].id \in DOMAIN orders IN
       adminReq' = [adminReq EXCEPT ![a].pc = "done",
           ![a].pedido = pedido,
           ![a].res = IF pedido THEN "success" ELSE "404",
           ![a].mail = IF pedido THEN "pending" ELSE "none"]
    /\ UNCHANGED <<nextId, checkout, webhook, payments, publicReq, allocVars>>

\* PUT /api/orders/:id/status: the store runs
\* findByIdAndUpdate(req.params.id, {status}, {new: true}) and the handler
\* goes on: 404 when no document came back; the shipped mail when the status
\* is 'Enviado', carrying trackingCode; then {success: true, status}.
AdminUpdate(a) ==
    /\ adminReq[a].pc = "store"
    /\ adminReq[a].route = PutStatus
    /\ orders' = findByIdAndUpdate(adminReq[a].id, adminReq[a].status)
    /\ LET pedido == adminReq[a].id \in DOMAIN orders IN
       adminReq' = [adminReq EXCEPT ![a].pc = "done",
           ![a].pedido = pedido,
           ![a].res = IF pedido THEN "success" ELSE "404",
           ![a].mail = IF pedido /\ adminReq[a].status = Enviado
                       THEN "pending" ELSE "none"]
    /\ UNCHANGED <<nextId, checkout, webhook, payments, publicReq, allocVars>>

\* The store call of either route rejects: catch, 500.
AdminStoreFail(a) ==
    /\ adminReq[a].pc = "store"
    /\ adminReq' = [adminReq EXCEPT ![a].pc = "done", ![a].res = "500"]
    /\ UNCHANGED <<orders, nextId, checkout, webhook, payments, publicReq,
                   allocVars>>

\* transporter.sendMail(...) settles; a rejection is logged by .catch.
AdminMailDone(a, ok) ==
    /\ adminReq[a].mail = "pending"
    /\ adminReq' = [adminReq EXCEPT ![a].mail = IF ok THEN "sent" ELSE "failed"]
    /\ UNCHANGED <<orders, nextId, checkout, webhook, payments, publicReq,
                   allocVars>>

\* ------------------------------------------ GET /api/public/orders/:id

\* pedido.trackingCode: the Order schema declares no such path, so a
\* document read from the store has it only if one was ever stored.
trackingCodeOf(pedido) ==
    IF "trackingCode" \in DOMAIN pedido THEN pedido.trackingCode ELSE Missing

\* The body sent by the first handler registered for the path.
publicView(pedido) ==
    [_id |-> pedido._id,
     status |-> pedido.status,
     data |-> pedido.data,
     cliente |-> [nome |-> pedido.cliente.nome],
     itens |-> pedido.itens,
     total |-> pedido.total,
     trackingCode |-> trackingCodeOf(pedido)]

\* The body sent by the second handler registered for the same path.
publicViewMapped(pedido) ==
    [_id |-> pedido._id,
     status |-> pedido.status,
     data |-> pedido.data,
     cliente |-> [nome |-> pedido.cliente.nome],
     itens |-> [i \in DOMAIN pedido.itens |->
                   [nome |-> pedido.itens[i].nome, qty |-> pedido.itens[i].qty,
                    size |-> pedido.itens[i].size,
                    color |-> pedido.itens[i].color]],
     total |-> pedido.total]

\* The handlers of the path in the order of their app.get(...) calls.
\* Express runs the first; it always answers and never calls next().
PublicHandlers == <<"first", "second">>

\* Order.findById(id): the documents whose _id is exactly the string given.
findById(id) == {o \in DOMAIN orders : ObjectIdString(o) = id}

\* The handler up to `await Order.findById(req.params.id)`.
PublicStart(g, q) ==
    /\ publicReq[g].pc = "idle"
    /\ Arrived(publicReq, g)
    /\ publicReq' = [publicReq EXCEPT ![g].pc = "find", ![g].id = q]
    /\ UNCHANGED <<orders, nextId, checkout, webhook, payments, adminReq,
                   allocVars>>

\* The store answers: 404 when there is no such document, else its view.
PublicFind(g) ==
    /\ publicReq[g].pc = "find"
    /\ LET found == findById(publicReq[g].id) IN
       IF found = {}
       THEN publicReq' = [publicReq EXCEPT ![g].pc = "done", ![g].res = "404"]
       ELSE LET pedido == orders[CHOOSE o \in found : TRUE] IN
            publicReq' = [publicReq EXCEPT ![g].pc = "done", ![g].res = "200",
                ![g].json = <<IF Head(PublicHandlers) = "first"
                              THEN publicView(pedido)
                              ELSE publicViewMapped(pedido)>>]
    /\ UNCHANGED <<orders, nextId, checkout, webhook, payments, adminReq,
                   allocVars>>

\* findById rejects: the catch block of the first handler, 404.
PublicFindFail(g) ==
    /\ publicReq[g].pc = "find"
    /\ publicReq' = [publicReq EXCEPT ![g].pc = "done", ![g].threw = TRUE,
                                     ![g].res = "404"]
    /\ UNCHANGED <<orders, nextId, checkout, webhook, payments, adminReq,
                   allocVars>>

\* ------------------------------------------------------------ the gateway

\* external_reference values a payment can carry: those of the preferences
\* whose payment URL (init_point) the server has handed out, in the success
\* response and the mail sent with it, and one of another integration.
KnownRefs ==
    {checkout[c].preference.external_reference :
        c \in {d \in Checkouts : checkout[d].res = "success"}}
        \cup {GhostRef}

\* The payer starts a payment on a preference.
PaymentCreate(p, r) ==
    /\ payments[p].status = "absent"
    /\ \A q \in 1..(p - 1) : payments[q].status # "absent"
    /\ r \in KnownRefs
    /\ payments' = [payments EXCEPT ![p] =
                        [status |-> "pending", external_reference |-> r]]
    /\ UNCHANGED <<orders, nextId, checkout, webhook, routeVars, allocVars>>

\* The gateway's payment life cycle: a pending payment is approved, rejected
\* or leaves for another status; an approved payment may be refunded.
PaymentChange(p, s) ==
    /\ \/ payments[p].status = "pending" /\ s \in {"approved", "rejected", "refunded"}
       \/ payments[p].status = "approved" /\ s = "refunded"
    /\ payments' = [payments EXCEPT ![p].status = s]
    /\ UNCHANGED <<orders, nextId, checkout, webhook, routeVars, allocVars>>

\* ------------------------------------------------------------ specification

Next ==
    \/ \E c \in Checkouts, b \in Bodies : CheckoutStart(c, b)
    \/ \E c \in Checkouts : CheckoutGatewayOk(c)
    \/ \E c \in Checkouts : CheckoutGatewayFail(c)
    \/ \E c \in Checkouts : StoreSave(c)
    \/ \E c \in Checkouts : StoreSaveFail(c)
    \/ \E c \in Checkouts : CheckoutRespond(c)
    \/ \E c \in Checkouts, ok \in BOOLEAN : CheckoutMailDone(c, ok)
    \/ \E h \in Webhooks, b \in WebhookBodies : WebhookStart(h, b)
    \/ \E h \in Webhooks : WebhookFetchOk(h)
    \/ \E h \in Webhooks : WebhookFetchFail(h)
    \/ \E h \in Webhooks : WebhookUpdate(h)
    \/ \E h \in Webhooks : WebhookUpdateFail(h)
    \/ \E h \in Webhooks, ok \in BOOLEAN : WebhookMailDone(h, ok)
    \/ \E p \in Payments, r \in 1..GhostRef : PaymentCreate(p, r)
    \/ \E p \in Payments, s \in PaymentStatuses : PaymentChange(p, s)

Spec == Init /\ [][Next]_vars

\* Checkout requests alone: no payment is started and no callback arrives.
NextCheckout ==
    \/ \E c \in Checkouts, b \in Bodies : CheckoutStart(c, b)
    \/ \E c \in Checkouts : CheckoutGatewayOk(c)
    \/ \E c \in Checkouts : CheckoutGatewayFail(c)
    \/ \E c \in Checkouts : StoreSave(c)
    \/ \E c \in Checkouts : StoreSaveFail(c)
    \/ \E c \in Checkouts : CheckoutRespond(c)
    \/ \E c \in Checkouts, ok \in BOOLEAN : CheckoutMailDone(c, ok)

SpecCheckout == Init /\ [][NextCheckout]_vars

\* The admin routes next to the checkouts that create the orders.
NextAdmin ==
    \/ \E c \in Checkouts, b \in Bodies : CheckoutStart(c, b)
    \/ \E c \in Checkouts : CheckoutGatewayOk(c)
    \/ \E c \in Checkouts : CheckoutGatewayFail(c)
    \/ \E c \in Checkouts : StoreSave(c)
    \/ \E c \in Checkouts : StoreSaveFail(c)
    \/ \E c \in Checkouts : CheckoutRespond(c)
    \/ \E c \in Checkouts, ok \in BOOLEAN : CheckoutMailDone(c, ok)
    \/ \E a \in Admins, r \in AdminRequests : AdminStart(a, r)
    \/ \E a \in Admins : AdminFind(a)
    \/ \E a \in Admins : AdminUpdate(a)
    \/ \E a \in Admins : AdminStoreFail(a)
    \/ \E a \in Admins, ok \in BOOLEAN : AdminMailDone(a, ok)

SpecAdmin == Init /\ [][NextAdmin]_vars

\* Checkout request c answered {success: true, url} for the example cart;
\* its mail is still on its way.
PlacedCheckout(c) ==
    [pc |-> "done", body |-> CheckoutBody(ExampleCart, 2500, "number"),
     externalReference |-> c, gwCalls |-> 1,
     preference |-> [items |-> itemsParaMP(ExampleCart, 2500),
                     external_reference |-> c],
     mpResponse |-> TRUE, mail |-> "pending", res |-> "success"]

\* The shop once its checkouts have been answered: every order is in the
\* store, awaiting payment, and no other request has arrived yet.
InitPlaced ==
    /\ nextId = MaxCheckouts
    /\ checkout = [c \in Checkouts |-> PlacedCheckout(c)]
    /\ orders = [c \in Checkouts |-> novoPedido(c)]
    /\ webhook = [h \in Webhooks |-> IdleWebhook]
    /\ adminReq = [a \in Admins |-> IdleAdmin]
    /\ publicReq = [g \in Lookups |-> IdlePublic]
    /\ payments = [p \in Payments |-> AbsentPayment]
    /\ aItens = << >>
    /\ aDesconto = 0
    /\ aOut = NoOut

\* Everything that happens to an order once it is placed: its mails, the
\* payments and their callbacks, the admin's requests.
NextPlaced ==
    \/ \E c \in Checkouts, ok \in BOOLEAN : CheckoutMailDone(c, ok)
    \/ \E h \in Webhooks, b \in WebhookBodies : WebhookStart(h, b)
    \/ \E h \in Webhooks : WebhookFetchOk(h)
    \/ \E h \in Webhooks : WebhookFetchFail(h)
    \/ \E h \in Webhooks : WebhookUpdate(h)
    \/ \E h \in Webhooks : WebhookUpdateFail(h)
    \/ \E h \in Webhooks, ok \in BOOLEAN : WebhookMailDone(h, ok)
    \/ \E p \in Payments, r \in 1..GhostRef : PaymentCreate(p, r)
    \/ \E p \in Payments, s \in PaymentStatuses : PaymentChange(p, s)
    \/ \E a \in Admins, r \in AdminRequests : AdminStart(a, r)
    \/ \E a \in Admins : AdminFind(a)
    \/ \E a \in Admins : AdminUpdate(a)
    \/ \E a \in Admins : AdminStoreFail(a)
    \/ \E a \in Admins, ok \in BOOLEAN : AdminMailDone(a, ok)

SpecPlaced == InitPlaced /\ [][NextPlaced]_vars

\* The tracking page next to the checkout that creates the orders.
NextPublic ==
    \/ \E c \in Checkouts, b \in Bodies : CheckoutStart(c, b)
    \/ \E c \in Checkouts : CheckoutGatewayOk(c)
    \/ \E c \in Checkouts : CheckoutGatewayFail(c)
    \/ \E c \in Checkouts : StoreSave(c)
    \/ \E c \in Checkouts : StoreSaveFail(c)
    \/ \E c \in Checkouts : CheckoutRespond(c)
    \/ \E c \in Checkouts, ok \in BOOLEAN : CheckoutMailDone(c, ok)
    \/ \E g \in Lookups, q \in Queries : PublicStart(g, q)
    \/ \E g \in Lookups : PublicFind(g)
    \/ \E g \in Lookups : PublicFindFail(g)

SpecPublic == Init /\ [][NextPublic]_vars

\* ------------------------------------------ the pricing on its own inputs

\* Unit prices and discounts in centavos.
Prices == {0, 333, 1000}
Descontos == {0, 1, 100, 2500}

ItemsOfLen(n) == [1..n -> {Item(p, q) : p \in Prices, q \in 1..MaxQty}]

\* Carts within the allocator's input constraints: unitPrice >= 0, quantity >= 1.
Carts == UNION {ItemsOfLen(n) : n \in 0..MaxItems} \cup {ExampleCart}

InitAlloc ==
    /\ InitServer
    /\ aItens \in Carts
    /\ aDesconto \in Descontos
    /\ aOut = NoOut

\* const itemsParaMP = itens.map(...) of the checkout handler.
Allocate ==
    /\ ~aOut.done
    /\ aOut' = [done |-> TRUE, items |-> itemsParaMP(aItens, aDesconto)]
    /\ UNCHANGED <<orders, nextId, checkout, webhook, payments, routeVars,
                 aItens, aDesconto>>

SpecAlloc == InitAlloc /\ [][Allocate]_vars

\* ------------------------------------------------------------------ claims

\* The deliveries that ran findByIdAndUpdate on order o and got its document.
Reconciled(o) ==
    {h \in Webhooks : /\ webhook[h].pc = "done"
                      /\ webhook[h].res = "200"
                      /\ webhook[h].externalRef = o
                      /\ webhook[h].pedidoAtualizado}

\* The deliveries whose update of order o is still to come.
InFlight(o) ==
    {h \in Webhooks : /\ webhook[h].pc \in {"fetch", "update"}
                      /\ webhook[h].pc = "update" => webhook[h].externalRef = o}

\* The number of 'payment confirmed' mails handed to the transporter for o.
ConfirmationsSent(o) ==
    Cardinality({h \in Webhooks : /\ webhook[h].externalRef = o
                                  /\ webhook[h].mail # "none"})

\* C1: once two or more webhook deliveries that fetched `approved` for an
\* order have finished (and no other delivery touched it), the order is
\* Approved and the 'payment confirmed' mail was sent exactly once.
C1_ApprovedTwiceMailsOnce ==
    \A o \in DOMAIN orders :
        ( /\ Cardinality(Reconciled(o)) >= 2
          /\ \A h \in Reconciled(o) : webhook[h].status = "approved" )
        => /\ orders[o].status = Aprovado
           /\ ConfirmationsSent(o) = 1

\* C2: when two deliveries for the same payment have both finished, one
\* having fetched `pending` and the other, later, `approved` (no other
\* delivery touched the order), the order is not back in awaiting payment.
C2_ConvergesToApproved ==
    \A h1, h2 \in Webhooks :
        ( /\ h1 # h2
          /\ h1 \in Reconciled(webhook[h1].externalRef)
          /\ h2 \in Reconciled(webhook[h1].externalRef)
          /\ webhook[h1].id = webhook[h2].id
          /\ webhook[h1].status = "pending"
          /\ webhook[h2].status = "approved"
          /\ Reconciled(webhook[h1].externalRef) = {h1, h2}
          /\ InFlight(webhook[h1].externalRef) = {} )
        => orders[webhook[h1].externalRef].status # Aguardando

\* C3: a webhook delivery that arrives when an order is Approved or Rejected
\* leaves that order's status as it is, whatever the gateway then reports.
C3_SettledStatusKept ==
    [][ \A h \in Webhooks :
          (webhook[h].pc = "update" /\ webhook'[h].pc = "done")
          => \A o \in webhook[h].settled \cap Settled :
                 orders'[o].status = orders[o].status ]_vars

\* The orders in the store that checkout request c created.
CreatedBy(c) == {o \in DOMAIN orders : orders[o].cliente = Cliente(c)}

\* C4: a checkout that answered {success: true, url} has added exactly one
\* order: awaiting payment, stored under an _id equal to the
\* external_reference sent to the gateway in that request.
C4_SuccessAddsOneOrder ==
    \A c \in Checkouts :
        checkout[c].res = "success"
        => /\ Cardinality(CreatedBy(c)) = 1
           /\ \A o \in CreatedBy(c) :
                 /\ o = checkout[c].preference.external_reference
                 /\ orders[o]._id = checkout[c].preference.external_reference
                 /\ orders[o].status = Aguardando

\* Two checkouts have answered with success.
C4_Witness ==
    \E c, d \in Checkouts :
        c # d /\ checkout[c].res = "success" /\ checkout[d].res = "success"

\* The checkout requests whose preference.create call failed.
GatewayFailed(c) ==
    /\ checkout[c].pc = "done"
    /\ checkout[c].gwCalls > 0
    /\ ~checkout[c].mpResponse

\* C5: when preference.create fails, no order is persisted, no 'order
\* received' mail is sent, the answer is 500 and the gateway was called once.
C5_GatewayFailureLeavesNothing ==
    \A c \in Checkouts :
        GatewayFailed(c)
        => /\ CreatedBy(c) = {}
           /\ checkout[c].preference.external_reference \notin DOMAIN orders
           /\ checkout[c].mail = "none"
           /\ checkout[c].res = "500"
           /\ checkout[c].gwCalls = 1

\* A checkout whose gateway call failed, next to one that went through.
C5_Witness ==
    \E c, d \in Checkouts :
        GatewayFailed(c) /\ checkout[d].res = "success"

\* An `itens` array that is empty or holds an item with quantity <= 0.
InvalidCart(b) ==
    b.hasItens /\ (b.itens = << >> \/ \E i \in DOMAIN b.itens : b.itens[i].qty <= 0)

\* C6: a checkout with an empty item list or an item of quantity <= 0 is not
\* answered with success and persists no order.
C6_InvalidCartRejected ==
    \A c \in Checkouts :
        (checkout[c].pc # "idle" /\ InvalidCart(checkout[c].body))
        => /\ checkout[c].res # "success"
           /\ CreatedBy(c) = {}

RECURSIVE SumGateway(_)
\* The sum over the gateway items of unit_price x quantity.
SumGateway(items) ==
    IF items = << >> THEN 0
    ELSE Head(items).unit_price * Head(items).quantity + SumGateway(Tail(items))

\* C7: for a cart with discount > 0 and subtotal > 0, the gateway line totals
\* sum to subtotal - discount, within 0.01 per item.
C7_DiscountReconciles ==
    (aOut.done /\ aDesconto > 0 /\ totalProdutos(aItens) > 0)
    => Abs(SumGateway(aOut.items) - (totalProdutos(aItens) - aDesconto))
           <= Len(aItens)

\* Fractions <<numerator, denominator>> with a positive denominator.
FracTimes(a, b) == <<a[1] * b[1], a[2] * b[2]>>
FracOver(a, b) == <<a[1] * b[2], a[2] * b[1]>>
FracMinus(a, b) == <<a[1] * b[2] - b[1] * a[2], a[2] * b[2]>>
Whole(n) == <<n, 1>>

\* The nearest whole number of centavos, halves away from zero.
Nearest(a) ==
    LET n == Abs(a[1])
        r == (n \div a[2]) + (IF 2 * (n % a[2]) >= a[2] THEN 1 ELSE 0)
    IN  IF a[1] < 0 THEN 0 - r ELSE r

\* The reference allocation of the specification:
\* itemDiscountShare = discount x (unitPrice / subtotal) and
\* discountedUnitPrice = unitPrice - itemDiscountShare / quantity.
ReferencePrice(unitPrice, quantity, discount, subtotal) ==
    IF discount = 0 \/ subtotal = 0 THEN unitPrice
    ELSE LET itemDiscountShare ==
                 FracTimes(Whole(discount), FracOver(Whole(unitPrice), Whole(subtotal)))
         IN  Nearest(FracMinus(Whole(unitPrice),
                               FracOver(itemDiscountShare, Whole(quantity))))

\* C8: every gateway unit_price equals the reference allocation, and the
\* example cart with discount 25.00 yields 95.00 and 45.00.
C8_UnitPriceIsReference ==
    aOut.done
    => /\ Len(aOut.items) = Len(aItens)
       /\ \A i \in DOMAIN aItens :
             /\ aOut.items[i].quantity = aItens[i].qty
             /\ aOut.items[i].unit_price =
                    ReferencePrice(aItens[i].preco, aItens[i].qty, aDesconto,
                                   totalProdutos(aItens))
       /\ (aItens = ExampleCart /\ aDesconto = 2500)
          => (aOut.items[1].unit_price = 9500 /\ aOut.items[2].unit_price = 4500)

\* The example cart has been priced with its discount of 25.00.
C8_Witness ==
    /\ aOut.done
    /\ aItens = ExampleCart
    /\ aDesconto = 2500
    /\ aOut.items[1].unit_price = 9500

\* The deliveries whose findByIdAndUpdate has run.
Updated(h) ==
    webhook[h].pc = "done" /\ webhook[h].res = "200" /\ webhook[h].status # "none"

\* C9: the order is in the store from the moment the success response of its
\* checkout is sent, so every webhook update for that order finds it; the
\* 'order received' mail may still be pending then.
C9_SavedBeforeResponse ==
    \A c \in Checkouts :
        checkout[c].res = "success"
        => /\ checkout[c].externalReference \in DOMAIN orders
           /\ checkout[c].mail # "none"
           /\ \A h \in Webhooks :
                 (Updated(h) /\ webhook[h].externalRef = checkout[c].externalReference)
                 => webhook[h].pedidoAtualizado

\* A webhook has found the order of a checkout whose mail is still pending.
C9_Witness ==
    \E c \in Checkouts, h \in Webhooks :
        /\ checkout[c].res = "success"
        /\ checkout[c].mail = "pending"
        /\ Updated(h)
        /\ webhook[h].externalRef = checkout[c].externalReference
        /\ webhook[h].pedidoAtualizado

AdminUpdated(a) ==
    /\ adminReq[a].pc = "store"
    /\ adminReq[a].route = PutStatus
    /\ adminReq'[a].pc = "done"
    /\ adminReq'[a].res = "success"

\* C11: a status update to 'Enviado' that supplies a trackingCode leaves
\* that code in the stored order; an update to any other status leaves the
\* stored trackingCode as it was.
C11_TrackingCodeStored ==
    [][\A a \in Admins :
          AdminUpdated(a) =>
              IF adminReq[a].status = Enviado
              THEN adminReq[a].trackingCode # Missing =>
                       trackingCodeOf(orders'[adminReq[a].id])
                           = adminReq[a].trackingCode
              ELSE trackingCodeOf(orders'[adminReq[a].id])
                       = trackingCodeOf(orders[adminReq[a].id])]_vars

\* The step in which the store answers admin request a's findByIdAndUpdate,
\* with the document or with null.
AdminAnswered(a) ==
    /\ adminReq[a].pc = "store"
    /\ adminReq[a].route = PutStatus
    /\ adminReq'[a].pc = "done"
    /\ adminReq'[a].res # "500"

\* C12: an admin PUT hands exactly one shipped mail to the transporter when
\* the status asked for is 'Enviado' and the store has the order, at the
\* moment the store answers; it hands over none in any other case and at any
\* other moment, and an unknown id is answered 404 with the store as it was.
C12_ShippedMailIffEnviado ==
    [][\A a \in Admins :
          IF AdminAnswered(a)
          THEN LET exists == adminReq[a].id \in DOMAIN orders IN
               /\ adminReq'[a].mail = "pending"
                      <=> (exists /\ adminReq[a].status = Enviado)
               /\ adminReq'[a].mail \in {"pending", "none"}
               /\ adminReq'[a].res = IF exists THEN "success" ELSE "404"
               /\ ~exists => orders' = orders
          ELSE adminReq'[a].mail = "pending" =>
                   adminReq[a].mail = "pending"]_vars

\* An 'Enviado' update of a stored order was answered and its mail went out.
C12_Witness ==
    \E a \in Admins :
        /\ adminReq[a].res = "success"
        /\ adminReq[a].status = Enviado
        /\ adminReq[a].id \in DOMAIN orders
        /\ adminReq[a].mail = "sent"

\* The mail of a request record settles in this step.
Settles(old, new) == old.mail = "pending" /\ new.mail \in {"sent", "failed"}

\* C13: when the mail of a checkout, a webhook delivery or an admin status
\* update settles, delivered or rejected, nothing changes but the record of
\* that mail: the response already given and the order store stay as they
\* are; and no step at all turns a success response into another one.
C13_MailOutcomeChangesNothing ==
    [][/\ \A c \in Checkouts :
             /\ Settles(checkout[c], checkout'[c]) =>
                    /\ checkout' = [checkout EXCEPT ![c].mail = checkout'[c].mail]
                    /\ UNCHANGED <<orders, webhook, adminReq>>
             /\ checkout[c].res = "success" => checkout'[c].res = "success"
       /\ \A h \in Webhooks :
             /\ Settles(webhook[h], webhook'[h]) =>
                    /\ webhook' = [webhook EXCEPT ![h].mail = webhook'[h].mail]
                    /\ UNCHANGED <<orders, checkout, adminReq>>
             /\ webhook[h].res = "200" => webhook'[h].res = "200"
       /\ \A a \in Admins :
             /\ Settles(adminReq[a], adminReq'[a]) =>
                    /\ adminReq' = [adminReq EXCEPT ![a].mail = adminReq'[a].mail]
                    /\ UNCHANGED <<orders, checkout, webhook>>
             /\ adminReq[a].res = "success" => adminReq'[a].res = "success"]_vars

\* The mails of a checkout, of an approved payment's callback and of an
\* 'Enviado' update were all rejected, and each request has its success
\* response.
C13_Witness ==
    /\ \E c \in Checkouts :
          checkout[c].mail = "failed" /\ checkout[c].res = "success"
    /\ \E h \in Webhooks :
          webhook[h].mail = "failed" /\ webhook[h].res = "200"
    /\ \E a \in Admins :
          adminReq[a].mail = "failed" /\ adminReq[a].res = "success"

\* C14: a request to GET /api/orders or PUT /api/orders/:id/status issues a
\* store call only if its token is valid and has isAdmin; without a token or
\* with an invalid one it is answered 401, with a valid token that lacks
\* isAdmin 403.
C14_AdminOnly ==
    \A a \in Admins :
        adminReq[a].pc # "idle" =>
            /\ adminReq[a].storeCalls > 0 => adminReq[a].token = "admin"
            /\ adminReq[a].token \in {Missing, "invalid"} =>
                   adminReq[a].res = "401"
            /\ adminReq[a].token = "user" => adminReq[a].res = "403"

\* The string in lower case.
LowerCase(str) == [i \in DOMAIN str |-> toLowerCase(str[i])]

\* str ends with suffix, letter case aside.
EndsWith(str, suffix) ==
    /\ Len(suffix) <= Len(str)
    /\ LowerCase(SubSeq(str, Len(str) - Len(suffix) + 1, Len(str)))
           = LowerCase(suffix)

\* The step in which the store answers lookup g's findById.
PublicAnswered(g) ==
    /\ publicReq[g].pc = "find"
    /\ publicReq'[g].pc = "done"
    /\ ~publicReq'[g].threw

\* C15: the tracking lookup returns an order when the id given is the _id of
\* a stored order or, letter case aside, the ending of the _id of exactly one
\* stored order, and that order is the one returned; it returns 404 when no
\* stored order matches.
C15_LookupByIdOrSuffix ==
    [][\A g \in Lookups :
          PublicAnswered(g) =>
              LET exact == {o \in DOMAIN orders :
                               ObjectIdString(o) = publicReq[g].id}
                  ending == {o \in DOMAIN orders :
                                EndsWith(ObjectIdString(o), publicReq[g].id)}
              IN  /\ (exact # {} \/ Cardinality(ending) = 1) =>
                         /\ publicReq'[g].res = "200"
                         /\ publicReq'[g].json[1]._id \in exact \cup ending
                  /\ ending = {} => publicReq'[g].res = "404"]_vars

\* C16: a successful answer of the tracking lookup shows of the customer
\* only the name and of each line item only nome, qty, size and color.
C16_SanitizedView ==
    \A g \in Lookups :
        publicReq[g].res = "200" =>
            LET view == publicReq[g].json[1] IN
            /\ DOMAIN view.cliente = {"nome"}
            /\ \A i \in DOMAIN view.itens :
                   DOMAIN view.itens[i] \subseteq {"nome", "qty", "size", "color"}

\* The fields of an order that are fixed at its creation.
Snapshot(pedido) ==
    <<pedido._id, pedido.cliente, pedido.itens, pedido.subtotal,
      pedido.frete, pedido.desconto, pedido.total, pedido.data>>

\* The step is the store's answer to an update addressed to order o, from a
\* webhook delivery or from an admin request.
Addressed(o) ==
    \/ \E h \in Webhooks :
          /\ webhook[h].pc = "update" /\ webhook'[h].pc = "done"
          /\ webhook[h].externalRef = o
    \/ \E a \in Admins :
          /\ adminReq[a].pc = "store" /\ adminReq'[a].pc = "done"
          /\ adminReq[a].route = PutStatus /\ adminReq[a].id = o

\* C17: a step of a webhook delivery or of an admin request neither creates
\* nor deletes an order, leaves _id, cliente, itens, subtotal, frete,
\* desconto, total and data of every order as they are, and changes no order
\* but the one it addresses.
C17_OnlyStatusOfAddressed ==
    [][(webhook' # webhook \/ adminReq' # adminReq) =>
          /\ DOMAIN orders' = DOMAIN orders
          /\ \A o \in DOMAIN orders :
                /\ Snapshot(orders'[o]) = Snapshot(orders[o])
                /\ orders'[o] # orders[o] => Addressed(o)]_vars

\* One order had its status written by a payment's callback and by an admin
\* update, and still is what the checkout stored.
C17_Witness ==
    \E h \in Webhooks, a \in Admins :
        /\ webhook[h].pedidoAtualizado
        /\ adminReq[a].pedido
        /\ adminReq[a].id = webhook[h].externalRef
        /\ orders[adminReq[a].id].status # Aguardando
        /\ orders[adminReq[a].id].cliente = Cliente(adminReq[a].id)

\* C18: a checkout that was answered 500, whatever its body, has left no
\* order of its own in the store.
C18_FailedCheckoutLeavesNothing ==
    \A c \in Checkouts :
        checkout[c].res = "500" => CreatedBy(c) = {}

====
